---- MODULE Spec2Model ----
(***************************************************************************)
(* Model of the tlock-js command-line encryption front end                 *)
(* (examples/cli-encrypt.js) and of the library-style helpers of           *)
(* examples/encrypt-arbitrary-text.js.                                     *)
(*                                                                         *)
(* Command-line tokens are strings; Chars gives the characters of a token  *)
(* as a sequence of one-character strings, the form the string operations  *)
(* (trim, startsWith, parseInt) work on.  JavaScript numbers are records:  *)
(* NaN, +/-Infinity, or a finite value given by its sign, the decimal      *)
(* digits of its integer part (most significant first, <<>> for zero) and  *)
(* a flag telling whether a non-zero fractional part follows.              *)
(***************************************************************************)
EXTENDS Integers, Sequences, FiniteSets, TLC

\* ------------------------------------------------------------------------
\* Bounds of the model
\* ------------------------------------------------------------------------

\* Largest number of command-line tokens after the program name.
MaxArgs == 5

\* Longest text handed to the library-style encryptText.
MaxTextLen == 3

\* Longest argument list of the runs checked for progress.
MaxLiveArgs == 3

\* ------------------------------------------------------------------------
\* Characters and strings
\* ------------------------------------------------------------------------

\* Characters String.prototype.trim and parseInt treat as white space
\* (space, tab, line feed stand for the whole WhiteSpace/LineTerminator set).
WhiteSpace == {" ", "\t", "\n"}

DecDigits == {"0", "1", "2", "3", "4", "5", "6", "7", "8", "9"}

HexDigits == DecDigits \cup {"a", "b", "c", "d", "e", "f", "A", "B", "C", "D", "E", "F"}

\* Numeric value of a digit character in radix 10 or 16.
DigitVal(c) ==
    CASE c = "0" -> 0 [] c = "1" -> 1 [] c = "2" -> 2 [] c = "3" -> 3
      [] c = "4" -> 4 [] c = "5" -> 5 [] c = "6" -> 6 [] c = "7" -> 7
      [] c = "8" -> 8 [] c = "9" -> 9
      [] c \in {"a", "A"} -> 10 [] c \in {"b", "B"} -> 11
      [] c \in {"c", "C"} -> 12 [] c \in {"d", "D"} -> 13
      [] c \in {"e", "E"} -> 14 [] c \in {"f", "F"} -> 15

\* Index of the first character of s outside cs, Len(s) + 1 when none.
FirstNotIn(s, cs) ==
    LET out == {i \in 1..Len(s) : s[i] \notin cs}
    IN  IF out = {} THEN Len(s) + 1 ELSE CHOOSE i \in out : \A j \in out : i <= j

\* Index of the last character of s outside cs, 0 when none.
LastNotIn(s, cs) ==
    LET out == {i \in 1..Len(s) : s[i] \notin cs}
    IN  IF out = {} THEN 0 ELSE CHOOSE i \in out : \A j \in out : i >= j

\* String.prototype.trim, leading half: drop leading white space.
TrimStart(s) == SubSeq(s, FirstNotIn(s, WhiteSpace), Len(s))

\* String.prototype.trim, trailing half: drop trailing white space.
TrimEnd(s) == SubSeq(s, 1, LastNotIn(s, WhiteSpace))

\* text.length in place of text.trim().length: nothing is trimmed.
TrimLeftOut(s) == s

\* text.trim()
Trim(s) == TrimEnd(TrimStart(s))

\* arg.startsWith('--')
StartsWithDashDash(s) == Len(s) >= 2 /\ s[1] = "-" /\ s[2] = "-"

\* ------------------------------------------------------------------------
\* Unbounded naturals as digit sequences
\* ------------------------------------------------------------------------

\* Drop leading zeros.
Norm(d) == SubSeq(d, FirstNotIn(d, {0}), Len(d))

\* -1, 0, 1 as a < b, a = b, a > b (both normalised).
RECURSIVE LexCmp(_, _)
LexCmp(a, b) ==
    IF a = <<>> THEN 0
    ELSE IF a[1] < b[1] THEN -1
    ELSE IF a[1] > b[1] THEN 1
    ELSE LexCmp(Tail(a), Tail(b))

MagCmp(a, b) ==
    IF Len(a) < Len(b) THEN -1
    ELSE IF Len(a) > Len(b) THEN 1
    ELSE LexCmp(a, b)

RECURSIVE MulAddRaw(_, _, _)
\* mag * base + carry, not normalised.
MulAddRaw(mag, base, carry) ==
    IF mag = <<>>
    THEN IF carry = 0 THEN <<>>
         ELSE Append(MulAddRaw(<<>>, base, carry \div 10), carry % 10)
    ELSE LET v == mag[Len(mag)] * base + carry
         IN  Append(MulAddRaw(SubSeq(mag, 1, Len(mag) - 1), base, v \div 10), v % 10)

MulAdd(mag, base, d) == Norm(MulAddRaw(mag, base, d))

RECURSIVE HalveRaw(_, _)
\* Long division by two: digits of the quotient, remainder appended last.
HalveRaw(mag, rem) ==
    IF mag = <<>> THEN <<rem>>
    ELSE LET cur == rem * 10 + mag[1]
         IN  <<cur \div 2>> \o HalveRaw(Tail(mag), cur % 2)

HalfQuot(mag) == LET r == HalveRaw(mag, 0) IN Norm(SubSeq(r, 1, Len(r) - 1))

HalfRem(mag) == LET r == HalveRaw(mag, 0) IN r[Len(r)]

RECURSIVE Shl(_, _)
\* mag * 2^n
Shl(mag, n) == IF n = 0 THEN mag ELSE Shl(MulAdd(mag, 2, 0), n - 1)

\* ------------------------------------------------------------------------
\* JavaScript number values
\* ------------------------------------------------------------------------

\* Number.MAX_SAFE_INTEGER = 2^53 - 1 = 9007199254740991
MAX_SAFE_INTEGER == <<9, 0, 0, 7, 1, 9, 9, 2, 5, 4, 7, 4, 0, 9, 9, 1>>

\* 2^53: from here on not every integer is a double.
TwoTo53 == MulAdd(MAX_SAFE_INTEGER, 1, 1)

NaN == [k |-> "nan", neg |-> FALSE, mag |-> <<>>, frac |-> FALSE]

Infinity == [k |-> "inf", neg |-> FALSE, mag |-> <<>>, frac |-> FALSE]

Fin(neg, mag, frac) == [k |-> "fin", neg |-> neg, mag |-> mag, frac |-> frac]

\* Unary minus on a number value.
Negate(v) == IF v.k = "nan" THEN v ELSE [v EXCEPT !.neg = ~v.neg]

\* isNaN(v)
IsNaN(v) == v.k = "nan"

\* Number.isInteger(v): a finite number without fractional part.
NumberIsInteger(v) == v.k = "fin" /\ ~v.frac

\* v < 1 (false for NaN)
LessThanOne(v) ==
    CASE v.k = "nan" -> FALSE
      [] v.k = "inf" -> v.neg
      [] v.k = "fin" -> v.neg \/ v.mag = <<>>
      [] OTHER -> FALSE

\* v > Number.MAX_SAFE_INTEGER (false for NaN)
GreaterThanMaxSafe(v) ==
    CASE v.k = "nan" -> FALSE
      [] v.k = "inf" -> ~v.neg
      [] v.k = "fin" -> ~v.neg /\ (MagCmp(v.mag, MAX_SAFE_INTEGER) = 1
                                   \/ (v.mag = MAX_SAFE_INTEGER /\ v.frac))
      [] OTHER -> FALSE

RECURSIVE RoundBits(_, _, _, _)
\* Round-to-nearest-even of a natural to 53 significant bits: shift right
\* until below 2^53, keeping the guard bit (last bit shifted out) and the
\* sticky bit (any earlier one), then round and shift back; a result of
\* 2^1024 or more is Infinity.
RoundBits(mag, shift, guard, sticky) ==
    IF MagCmp(mag, TwoTo53) >= 0
    THEN RoundBits(HalfQuot(mag), shift + 1, HalfRem(mag), IF guard = 1 THEN 1 ELSE sticky)
    ELSE LET up == guard = 1 /\ (sticky = 1 \/ HalfRem(mag) = 1)
             m  == IF up THEN MulAdd(mag, 1, 1) ELSE mag
             top == IF m = TwoTo53 THEN shift + 54 ELSE shift + 53
         IN  IF top > 1024 THEN Infinity ELSE Fin(FALSE, Shl(m, shift), FALSE)

\* The Number value for a mathematical natural.  More than 309 decimal
\* digits is at least 10^309 > 2^1024, hence Infinity without the long
\* division.
ToNumber(mag) ==
    IF Len(mag) > 309 THEN Infinity
    ELSE IF MagCmp(mag, TwoTo53) < 0 THEN Fin(FALSE, mag, FALSE)
    ELSE RoundBits(mag, 0, 0, 0)

\* Longest prefix of s made of digits of the radix.
DigitPrefix(s, digits) == SubSeq(s, 1, FirstNotIn(s, digits) - 1)

RECURSIVE HexMag(_, _)
\* Value of a string of hexadecimal digits, accumulated left to right.
HexMag(s, acc) ==
    IF s = <<>> THEN acc ELSE HexMag(Tail(s), MulAdd(acc, 16, DigitVal(s[1])))

\* parseInt(str) with no radix argument: skip leading white space, take an
\* optional sign, switch to radix 16 on a 0x/0X prefix, read the longest
\* run of digits (NaN when empty) and ignore whatever follows.
parseInt(str) ==
    LET s0   == TrimStart(str)
        neg  == s0 # <<>> /\ s0[1] = "-"
        s1   == IF s0 # <<>> /\ s0[1] \in {"-", "+"} THEN Tail(s0) ELSE s0
        hex  == Len(s1) >= 2 /\ s1[1] = "0" /\ s1[2] \in {"x", "X"}
        s2   == IF hex THEN SubSeq(s1, 3, Len(s1)) ELSE s1
        z    == DigitPrefix(s2, IF hex THEN HexDigits ELSE DecDigits)
        mag  == IF hex THEN HexMag(z, <<>>)
                ELSE Norm([i \in 1..Len(z) |-> DigitVal(z[i])])
        v    == ToNumber(mag)
    IN  IF z = <<>> THEN NaN
        ELSE IF neg THEN Negate(v) ELSE v

\* ------------------------------------------------------------------------
\* Command-line tokens
\* ------------------------------------------------------------------------

\* A run of 310 nines, beyond the range of a double.
HugeChars == [i \in 1..310 |-> "9"]

\* The characters of the tokens the runs are started with.
Chars(tok) ==
    CASE tok = "" -> <<>>
      [] tok = " " -> <<" ">>
      [] tok = "Hi" -> <<"H", "i">>
      [] tok = "100" -> <<"1", "0", "0">>
      [] tok = "0" -> <<"0">>
      [] tok = "x" -> <<"x">>
      [] tok = "1.5" -> <<"1", ".", "5">>
      [] tok = "7x" -> <<"7", "x">>
      [] tok = "9007199254740993" ->
           <<"9", "0", "0", "7", "1", "9", "9", "2", "5", "4", "7", "4", "0", "9", "9", "3">>
      [] tok = "9{310}" -> HugeChars
      [] tok = "f.age" -> <<"f", ".", "a", "g", "e">>
      [] tok = "--help" -> <<"-", "-", "h", "e", "l", "p">>
      [] tok = "-h" -> <<"-", "h">>
      [] tok = "--output" -> <<"-", "-", "o", "u", "t", "p", "u", "t">>
      [] tok = "-o" -> <<"-", "o">>
      [] tok = "--testnet" -> <<"-", "-", "t", "e", "s", "t", "n", "e", "t">>
      [] tok = "-t" -> <<"-", "t">>
      [] tok = "--verbose" -> <<"-", "-", "v", "e", "r", "b", "o", "s", "e">>
      [] tok = "-v" -> <<"-", "v">>
      [] tok = "--stdout" -> <<"-", "-", "s", "t", "d", "o", "u", "t">>
      [] tok = "-s" -> <<"-", "s">>
      [] tok = "--quiet" -> <<"-", "-", "q", "u", "i", "e", "t">>
      [] tok = "-q" -> <<"-", "q">>
      [] tok = "--bogus" -> <<"-", "-", "b", "o", "g", "u", "s">>
      [] tok = "-x" -> <<"-", "x">>

\* ------------------------------------------------------------------------
\* parseArgs
\* ------------------------------------------------------------------------

\* options.output: null or a string.
Null == [null |-> TRUE, s |-> ""]

Str(s) == [null |-> FALSE, s |-> s]

\* JavaScript truthiness of a null-or-string value.
Truthy(v) == ~v.null /\ v.s # ""

\* No Options record (parseArgs has not returned).
NoOptions ==
    [set |-> FALSE, text |-> "", round |-> NaN, output |-> Null,
     testnet |-> FALSE, verbose |-> FALSE, stdout |-> FALSE, quiet |-> FALSE]

\* The record built before the flags are read.
InitialOptions(text, round) ==
    [set |-> TRUE, text |-> text, round |-> round, output |-> Null,
     testnet |-> FALSE, verbose |-> FALSE, stdout |-> FALSE, quiet |-> FALSE]

\* process.exit has not been called.
NoExit == -1

\* A console.log line on standard output.
Log(id) == [k |-> "log", v |-> id]

\* process.stdout.write(encrypted)
Raw(a) == [k |-> "artifact", v |-> a]

\* The help flag looked for in the first token only.
HelpOnlyFirst(args) == Len(args) >= 1 /\ (args[1] = "--help" \/ args[1] = "-h")

\* args.includes('--help') || args.includes('-h')
HelpRequested(args) == \E i \in 1..Len(args) : args[i] = "--help" \/ args[i] = "-h"

\* args.length < 2
MissingArguments(args) == Len(args) < 2

\* !text || text.trim().length === 0
TextIsEmpty(text) == text = "" \/ Len(Trim(Chars(text))) = 0

\* isNaN(round) || round < 1
RoundIsInvalid(round) == IsNaN(round) \/ LessThanOne(round)

\* The --stdout/--output check left out.
StdoutWithOutputLeftOut(o) == FALSE

\* options.stdout && options.output
StdoutWithOutput(o) == o.stdout /\ Truthy(o.output)

\* The --quiet check left out.
QuietWithoutStdoutLeftOut(o) == FALSE

\* options.quiet && !options.stdout
QuietWithoutStdout(o) == o.quiet /\ ~o.stdout

\* --output as the last token reported without ending the process.
MissingFilenameIgnored(o) == [err |-> "", o |-> o]

\* --output is the last token: the loop ends the process.
MissingFilename(o) == [err |-> "Error: --output requires a filename", o |-> o]

\* A token starting with -- that is none of the flags ends the process.
UnknownFlag(o) == [err |-> "Error: Unknown flag", o |-> o]

RECURSIVE FlagLoop(_, _, _)
\* The flag loop, from (1-based) position i on; err is the message of the
\* process.exit(1) it ran into, "" when it ran to the end.
FlagLoop(args, i, o) ==
    IF i > Len(args) THEN [err |-> "", o |-> o]
    ELSE LET arg == args[i] IN
         IF arg = "--output" \/ arg = "-o"
         THEN IF i + 1 <= Len(args)
              THEN FlagLoop(args, i + 2, [o EXCEPT !.output = Str(args[i + 1])])
              ELSE MissingFilename(o)
         ELSE IF arg = "--testnet" \/ arg = "-t"
         THEN FlagLoop(args, i + 1, [o EXCEPT !.testnet = TRUE])
         ELSE IF arg = "--verbose" \/ arg = "-v"
         THEN FlagLoop(args, i + 1, [o EXCEPT !.verbose = TRUE])
         ELSE IF arg = "--stdout" \/ arg = "-s"
         THEN FlagLoop(args, i + 1, [o EXCEPT !.stdout = TRUE])
         ELSE IF arg = "--quiet" \/ arg = "-q"
         THEN FlagLoop(args, i + 1, [o EXCEPT !.quiet = TRUE])
         ELSE IF StartsWithDashDash(Chars(arg))
         THEN UnknownFlag(o)
         ELSE FlagLoop(args, i + 1, o)

\* process.exit(code) inside parseArgs after writing out and err.
Exit(code, out, err) == [exit |-> code, options |-> NoOptions, out |-> out, err |-> err]

\* parseArgs over args = process.argv.slice(2): the exit code it ends the
\* process with (NoExit when it returns), the Options record it returns,
\* and what it wrote to standard output and standard error.
parseArgs(args) ==
    IF HelpRequested(args)
    THEN Exit(0, <<Log("help")>>, <<>>)
    ELSE IF MissingArguments(args)
    THEN Exit(1, <<Log("usage")>>, <<"Error: Missing required arguments">>)
    ELSE LET text  == args[1]
             round == parseInt(Chars(args[2]))
         IN  IF TextIsEmpty(text)
             THEN Exit(1, <<>>, <<"Error: Text cannot be empty">>)
             ELSE IF RoundIsInvalid(round)
             THEN Exit(1, <<>>, <<"Error: Round must be a positive integer">>)
             ELSE LET r == FlagLoop(args, 3, InitialOptions(text, round))
                  IN  IF r.err # ""
                      THEN Exit(1, <<>>, <<r.err>>)
                      ELSE IF StdoutWithOutput(r.o)
                      THEN Exit(1, <<>>, <<"Error: Cannot use both --stdout and --output">>)
                      ELSE IF QuietWithoutStdout(r.o)
                      THEN Exit(1, <<>>, <<"Error: --quiet can only be used with --stdout">>)
                      ELSE [exit |-> NoExit, options |-> r.o, out |-> <<>>, err |-> <<>>]

\* ------------------------------------------------------------------------
\* Inputs of the command-line run
\* ------------------------------------------------------------------------

\* First positional token.
TextTokens == {"", " ", "Hi", "--help"}

\* Second positional token.  9007199254740993 is 2^53 + 1, not a double.
RoundTokens == {"100", "0", "x", "1.5", "7x", "9007199254740993", "9{310}", "-h"}

\* Tokens after the two positionals.
TailTokens ==
    {"--output", "-o", "--testnet", "-v", "--stdout", "-s", "--quiet", "-q",
     "--help", "--bogus", "-x", "f.age"}

\* Sequences of length n over S.
SeqsOfLen(S, n) == [1..n -> S]

\* What the encryption primitive can return.
Artifacts == {"age-1", "age-2"}

\* Readings of the clock, as Date.prototype.toISOString prints them.
ClockReadings ==
    { <<"2", "0", "2", "5", "-", "0", "1", "-", "0", "2", "T",
        "0", "3", ":", "0", "4", ":", "0", "5", ".", "6", "7", "8", "Z">>,
      <<"2", "0", "2", "5", "-", "1", "2", "-", "3", "1", "T",
        "2", "3", ":", "5", "9", ":", "5", "9", ".", "0", "0", "0", "Z">> }

\* ------------------------------------------------------------------------
\* State
\* ------------------------------------------------------------------------

VARIABLES
    argv,          \* process.argv.slice(2)
    pc,            \* where the run of cli-encrypt.js stands
    options,       \* the Options record parseArgs returned
    exitCode,      \* exit code of the process, NoExit while it runs
    stdout,        \* everything written to standard output, in order
    stderr,        \* everything written to standard error, in order
    clients,       \* network clients constructed, in order
    infoCalls,     \* client.chain().info() calls: the client used, how it settled
    encryptCalls,  \* timelockEncrypt calls: round, bytes, client
    files,         \* fs.writeFileSync calls that succeeded: name, data
    ret,           \* what encryptText resolved with
    thrown,        \* the error caught by the catch block of encryptText
    exText,        \* encrypt-arbitrary-text.js: text argument of encryptText
    exRound,       \* argument of encryptText and of validateRound
    exPc,          \* where the call of encryptText stands
    exThrown,      \* message of the error encryptText rejected with
    exCalls,       \* timelockEncrypt calls made by encryptText
    exResult,      \* what encryptText resolved with
    exOut,         \* console.log and console.error lines of encryptText
    vr,            \* outcome of validateRound(exRound)
    mPc,           \* main of encrypt-arbitrary-text.js: about to call, awaiting, done
    mStep,         \* index in MainSteps of the step main is at
    mTrace,        \* the steps main called and how each settled, in order
    mCalls,        \* timelockEncrypt calls made by the steps
    mFiles,        \* fs.writeFileSync calls of the steps that succeeded
    mOut,          \* console.log lines of main and its steps
    mErr           \* console.error lines of main and its steps

cliVars ==
    <<argv, pc, options, exitCode, stdout, stderr, clients, infoCalls,
      encryptCalls, files, ret, thrown>>

libVars == <<exText, exRound, exPc, exThrown, exCalls, exResult, exOut, vr>>

mainVars == <<mPc, mStep, mTrace, mCalls, mFiles, mOut, mErr>>

exVars == <<libVars, mainVars>>

\* ------------------------------------------------------------------------
\* encryptText and main of the command-line tool
\* ------------------------------------------------------------------------

\* Buffer.from(text, 'utf8')
Utf8(text) == Chars(text)

\* s.replace(/[.]/g, '-'): the colons stay.
ReplaceDotOnly(s) == [i \in 1..Len(s) |-> IF s[i] = "." THEN "-" ELSE s[i]]

\* s.replace(/[:.]/g, '-')
ReplaceColonDot(s) == [i \in 1..Len(s) |-> IF s[i] \in {":", "."} THEN "-" ELSE s[i]]

\* new Date().toISOString().replace(/[:.]/g, '-').slice(0, -5)
Timestamp(iso) == LET r == ReplaceColonDot(iso) IN SubSeq(r, 1, Len(r) - 5)

\* The characters of the string literals encryptText builds names from.
Literal(s) ==
    CASE s = "encrypted-" -> <<"e", "n", "c", "r", "y", "p", "t", "e", "d", "-">>
      [] s = "mainnet" -> <<"m", "a", "i", "n", "n", "e", "t">>
      [] s = "testnet" -> <<"t", "e", "s", "t", "n", "e", "t">>
      [] s = "-round-" -> <<"-", "r", "o", "u", "n", "d", "-">>
      [] s = ".age" -> <<".", "a", "g", "e">>
      [] s = "Infinity" -> <<"I", "n", "f", "i", "n", "i", "t", "y">>
      [] s = "NaN" -> <<"N", "a", "N">>
      [] s = "auto-generated" -> <<"a", "u", "t", "o", "-", "g", "e", "n", "e", "r", "a", "t",
                      "e", "d">>

\* The decimal digit of d in 0..9.
DigitChar(d) == <<"0", "1", "2", "3", "4", "5", "6", "7", "8", "9">>[d + 1]

\* ${round}: Number-to-string of what parseInt returns, that is NaN, an
\* infinity or an integer (the integers of the runs are below 10^21 and
\* print as their decimal digits).
NumberToString(v) ==
    IF v.k = "nan" THEN Literal("NaN")
    ELSE (IF v.neg /\ (v.k = "inf" \/ v.mag # <<>>) THEN <<"-">> ELSE <<>>)
         \o (IF v.k = "inf" THEN Literal("Infinity")
             ELSE IF v.mag = <<>> THEN <<"0">>
             ELSE [i \in 1..Len(v.mag) |-> DigitChar(v.mag[i])])

\* `encrypted-${network}-round-${round}-${timestamp}.age`
AutoName(testnet, round, timestamp) ==
    Literal("encrypted-") \o Literal(IF testnet THEN "testnet" ELSE "mainnet")
    \o Literal("-round-") \o NumberToString(round) \o <<"-">> \o timestamp
    \o Literal(".age")

\* A file name given with --output.
GivenName(s) == Chars(s)

NoReturn == [set |-> FALSE, encrypted |-> "", filename |-> Null]

\* Lines encryptText prints before the first await.
IntroLines(o) ==
    IF o.quiet THEN <<>>
    ELSE IF o.verbose
    THEN <<Log("Encrypting text for"), Log("Text"), Log("Round"), Log("Network")>>
    ELSE <<Log("Encrypting"), Log("Target round")>>

\* The banner printed without looking at options.quiet.
BannerAlways(o) == <<Log("TLOCK-JS CLI Encryption Tool"), Log("====")>>

\* Lines main prints before calling encryptText.
Banner(o) ==
    IF o.quiet THEN <<>> ELSE <<Log("TLOCK-JS CLI Encryption Tool"), Log("====")>>

\* The delivery, had process.stdout.write(encrypted) stood outside the
\* if (stdout) branch.
StdoutDeliveryAlways(o, a) ==
    (IF o.quiet THEN <<>> ELSE <<Log("Encryption successful!")>>)
    \o (IF o.stdout /\ ~o.quiet
        THEN <<Log("Outputting encrypted content to stdout:"), Log("rule")>>
        ELSE <<>>)
    \o <<Raw(a)>>
    \o (IF o.stdout /\ ~o.quiet THEN <<Log("rules")>> ELSE <<>>)

\* What encryptText writes to standard output once timelockEncrypt resolved
\* with a, up to and including the delivery on the stdout path.
StdoutDelivery(o, a) ==
    (IF o.quiet THEN <<>> ELSE <<Log("Encryption successful!")>>)
    \o (IF o.stdout
        THEN (IF o.quiet THEN <<>>
              ELSE <<Log("Outputting encrypted content to stdout:"), Log("rule")>>)
             \o <<Raw(a)>>
             \o (IF o.quiet THEN <<>> ELSE <<Log("rules")>>)
        ELSE <<>>)

\* Lines encryptText prints after fs.writeFileSync returned.
SavedLines(o) ==
    IF o.quiet THEN <<>>
    ELSE <<Log("Saved to"), Log("Can be decrypted after round")>>
         \o (IF o.verbose
             THEN <<Log("File Details"), Log("Size"), Log("Format"), Log("Filekey Hash")>>
             ELSE <<>>)

\* Lines main prints after encryptText resolved.
Epilogue(o) ==
    IF o.quiet THEN <<>>
    ELSE (IF o.stdout
          THEN <<Log("Done! Encrypted content output to stdout."), Log("You can pipe this output")>>
          ELSE <<Log("Done! Your text has been encrypted and saved.")>>)
         \o <<Log("To decrypt later, use:"), Log("timelockDecrypt")>>

\* What the catch block of encryptText prints before rethrowing.
CatchLines(o) ==
    IF o.quiet THEN <<>>
    ELSE <<"Encryption failed">> \o (IF o.verbose THEN <<"Full error">> ELSE <<>>)

\* The name the artifact is saved under.
FileNameFor(o, iso) ==
    IF Truthy(o.output) THEN GivenName(o.output.s)
    ELSE AutoName(o.testnet, o.round, Timestamp(iso))

\* The return value of encryptText.
ReturnValue(o, a) ==
    [set |-> TRUE, encrypted |-> a,
     filename |-> IF o.stdout THEN Null
                  ELSE IF Truthy(o.output) THEN o.output ELSE Str("auto-generated")]

NoOutcome == [done |-> FALSE, threw |-> "", value |-> NaN]

\* main of encrypt-arbitrary-text.js is not running.
MainIdle ==
    /\ mPc = "off"
    /\ mStep = 0
    /\ mTrace = <<>>
    /\ mCalls = <<>>
    /\ mFiles = <<>>
    /\ mOut = <<>>
    /\ mErr = <<>>

\* encrypt-arbitrary-text.js is not running.
ExIdle ==
    /\ MainIdle
    /\ exText = <<>>
    /\ exRound = NaN
    /\ exPc = "off"
    /\ exThrown = ""
    /\ exCalls = <<>>
    /\ exResult = ""
    /\ exOut = <<>>
    /\ vr = NoOutcome

\* node is started on cli-encrypt.js with an argument list.
InitCli ==
    /\ \/ argv = <<>>
       \/ \E t \in TextTokens : argv = <<t>>
       \/ \E n \in 0..(MaxArgs - 2) :
            \E t \in TextTokens, r \in RoundTokens, tl \in SeqsOfLen(TailTokens, n) :
              argv = <<t, r>> \o tl
    /\ pc = "start"
    /\ options = NoOptions
    /\ exitCode = NoExit
    /\ stdout = <<>>
    /\ stderr = <<>>
    /\ clients = <<>>
    /\ infoCalls = <<>>
    /\ encryptCalls = <<>>
    /\ files = <<>>
    /\ ret = NoReturn
    /\ thrown = ""
    /\ ExIdle

\* main, had it constructed the client before calling parseArgs.
ClientThenParseArgs ==
    /\ pc = "start"
    /\ clients' = Append(clients, "mainnet")
    /\ LET r == parseArgs(argv) IN
         /\ stdout' = stdout \o r.out
         /\ stderr' = stderr \o r.err
         /\ options' = r.options
         /\ exitCode' = r.exit
         /\ pc' = IF r.exit = NoExit THEN "main" ELSE "exited"
    /\ UNCHANGED <<argv, infoCalls, encryptCalls, files, ret, thrown, exVars>>

\* main calls parseArgs, which returns the options or ends the process.
ParseArgsStep ==
    /\ pc = "start"
    /\ LET r == parseArgs(argv) IN
         /\ stdout' = stdout \o r.out
         /\ stderr' = stderr \o r.err
         /\ options' = r.options
         /\ exitCode' = r.exit
         /\ pc' = IF r.exit = NoExit THEN "main" ELSE "exited"
    /\ UNCHANGED <<argv, clients, infoCalls, encryptCalls, files, ret, thrown, exVars>>

\* testnet ? testnetClient() : mainnetClient(), always the mainnet client.
ClientAlwaysMainnet(testnet) == "mainnet"

\* testnet ? testnetClient() : mainnetClient()
ClientFor(testnet) == IF testnet THEN "testnet" ELSE "mainnet"

\* The call timelockEncrypt(round, textBuffer, client).
EncryptCall(o, client) ==
    [round |-> o.round, bytes |-> Utf8(o.text), client |-> client]

\* main prints its banner and calls encryptText, which constructs the
\* client, prints its introduction and runs up to its first await: the
\* chain-info query when verbose and not quiet, else timelockEncrypt.
MainStart ==
    /\ pc = "main"
    /\ clients' = Append(clients, ClientFor(options.testnet))
    /\ stdout' = stdout \o Banner(options) \o IntroLines(options)
    /\ IF ~options.quiet /\ options.verbose
       THEN /\ infoCalls' = Append(infoCalls, [client |-> Len(clients'), settled |-> "pending"])
            /\ pc' = "await_info"
            /\ UNCHANGED encryptCalls
       ELSE /\ encryptCalls' = Append(encryptCalls, EncryptCall(options, Len(clients')))
            /\ pc' = "await_encrypt"
            /\ UNCHANGED infoCalls
    /\ UNCHANGED <<argv, options, exitCode, stderr, files, ret, thrown, exVars>>

\* The catch blocks, had the process ended with code 0 after them.
FailsExitZero(out, error) ==
    /\ stdout' = stdout \o out
    /\ stderr' = stderr \o CatchLines(options) \o <<"Uncaught ReferenceError: options is not defined">>
    /\ thrown' = error
    /\ exitCode' = 0
    /\ pc' = "exited"
    /\ UNCHANGED <<files, ret>>

\* An error reaches the catch block of encryptText, which reports it unless
\* quiet and rethrows it into the catch block of main.  That block reads
\* options, which is declared inside the try block and out of scope there:
\* a ReferenceError is thrown, main() rejects with nobody handling it, and
\* the runtime prints the error and ends the process with code 1.
Fails(out, error) ==
    /\ stdout' = stdout \o out
    /\ stderr' = stderr \o CatchLines(options) \o <<"Uncaught ReferenceError: options is not defined">>
    /\ thrown' = error
    /\ exitCode' = 1
    /\ pc' = "exited"
    /\ UNCHANGED <<files, ret>>

\* The chain-info query settles (ok or not); encryptText reports it and
\* goes on to call timelockEncrypt.
ChainInfoSettles(ok) ==
    /\ pc = "await_info"
    /\ infoCalls' = [infoCalls EXCEPT ![Len(infoCalls)].settled =
                        IF ok THEN "resolved" ELSE "rejected"]
    /\ stdout' = stdout \o (IF ok THEN <<Log("Chain Hash"), Log("Scheme")>>
                            ELSE <<Log("Could not fetch chain info")>>)
    /\ encryptCalls' = Append(encryptCalls, EncryptCall(options, infoCalls[Len(infoCalls)].client))
    /\ pc' = "await_encrypt"
    /\ UNCHANGED <<argv, options, exitCode, stderr, clients, files, ret, thrown, exVars>>

ChainInfoResolves == ChainInfoSettles(TRUE)

\* The chain-info query rejects and its error is left to the catch block
\* of encryptText.
ChainInfoRejectsAborts ==
    /\ pc = "await_info"
    /\ infoCalls' = [infoCalls EXCEPT ![Len(infoCalls)].settled = "rejected"]
    /\ Fails(<<>>, "ChainInfoError")
    /\ UNCHANGED <<argv, options, clients, encryptCalls, exVars>>

ChainInfoRejects == ChainInfoSettles(FALSE)

\* timelockEncrypt resolves with artifact a; encryptText delivers it to
\* standard output or to a file (fs.writeFileSync may throw) and returns;
\* main prints its epilogue and the process ends.
EncryptResolves ==
    /\ pc = "await_encrypt"
    /\ \E a \in Artifacts :
         IF options.stdout
         THEN /\ stdout' = stdout \o StdoutDelivery(options, a) \o Epilogue(options)
              /\ ret' = ReturnValue(options, a)
              /\ exitCode' = 0
              /\ pc' = "done"
              /\ UNCHANGED <<stderr, files, thrown>>
         ELSE \E iso \in ClockReadings, written \in BOOLEAN :
                IF written
                THEN /\ files' = Append(files, [name |-> FileNameFor(options, iso), data |-> a])
                     /\ stdout' = stdout \o StdoutDelivery(options, a) \o SavedLines(options)
                                         \o Epilogue(options)
                     /\ ret' = ReturnValue(options, a)
                     /\ exitCode' = 0
                     /\ pc' = "done"
                     /\ UNCHANGED <<stderr, thrown>>
                ELSE Fails(StdoutDelivery(options, a), "IoError")
    /\ UNCHANGED <<argv, options, clients, infoCalls, encryptCalls, exVars>>

\* timelockEncrypt rejects.
EncryptRejects ==
    /\ pc = "await_encrypt"
    /\ Fails(<<>>, "EncryptionError")
    /\ UNCHANGED <<argv, options, clients, infoCalls, encryptCalls, exVars>>

NextCli ==
    \/ ParseArgsStep
    \/ MainStart
    \/ ChainInfoResolves
    \/ ChainInfoRejects
    \/ EncryptResolves
    \/ EncryptRejects

vars == <<cliVars, exVars>>

\* ------------------------------------------------------------------------
\* encrypt-arbitrary-text.js: encryptText and validateRound
\* ------------------------------------------------------------------------

\* Characters the texts are made of.
TextAlphabet == {" ", "\n", "a"}

\* Integer parts of the round values tried: small ones, and the ones around
\* the safe-integer limit (2^53 - 2 .. 2^53 + 2, all of them doubles).
SmallMags == {<<>>, <<1>>, <<2>>}

LargeMags ==
    { <<9, 0, 0, 7, 1, 9, 9, 2, 5, 4, 7, 4, 0, 9, 9, 0>>, MAX_SAFE_INTEGER, TwoTo53,
      MulAdd(TwoTo53, 1, 2) }

\* Round values tried: +/-0, +/-1, +/-2, the same with a fractional part,
\* the large integers, NaN and +/-Infinity.
RoundValues ==
    {Fin(n, m, f) : n \in BOOLEAN, m \in SmallMags, f \in BOOLEAN}
    \cup {Fin(n, m, FALSE) : n \in BOOLEAN, m \in LargeMags}
    \cup {NaN, Infinity, Negate(Infinity)}

\* validateRound without its upper limit.
validateRoundNoLimit(round) ==
    IF ~NumberIsInteger(round)
    THEN [done |-> TRUE, threw |-> "Round number must be an integer", value |-> NaN]
    ELSE IF LessThanOne(round)
    THEN [done |-> TRUE, threw |-> "Round number must be at least 1", value |-> NaN]
    ELSE [done |-> TRUE, threw |-> "", value |-> round]

\* validateRound(round): the value returned, or the message thrown.
validateRound(round) ==
    IF ~NumberIsInteger(round)
    THEN [done |-> TRUE, threw |-> "Round number must be an integer", value |-> NaN]
    ELSE IF LessThanOne(round)
    THEN [done |-> TRUE, threw |-> "Round number must be at least 1", value |-> NaN]
    ELSE IF GreaterThanMaxSafe(round)
    THEN [done |-> TRUE, threw |-> "Round number is too large", value |-> NaN]
    ELSE [done |-> TRUE, threw |-> "", value |-> round]

\* The message encryptText(text, roundNumber, client) throws while
\* validating its input, "" when the input passes.
ExValidate(text, roundNumber) ==
    IF LessThanOne(roundNumber) THEN "Round number must be at least 1"
    ELSE IF text = <<>> \/ Len(Trim(text)) = 0 THEN "Text cannot be empty"
    ELSE ""

\* The command-line tool is not running.
CliIdle ==
    /\ argv = <<>>
    /\ pc = "off"
    /\ options = NoOptions
    /\ exitCode = NoExit
    /\ stdout = <<>>
    /\ stderr = <<>>
    /\ clients = <<>>
    /\ infoCalls = <<>>
    /\ encryptCalls = <<>>
    /\ files = <<>>
    /\ ret = NoReturn
    /\ thrown = ""

\* encryptText and validateRound of encrypt-arbitrary-text.js are called
\* on a text and a round value.
InitEx ==
    /\ CliIdle
    /\ \E n \in 0..MaxTextLen : exText \in [1..n -> TextAlphabet]
    /\ exRound \in RoundValues
    /\ exPc = "start"
    /\ exThrown = ""
    /\ exCalls = <<>>
    /\ exResult = ""
    /\ exOut = <<>>
    /\ vr = NoOutcome
    /\ MainIdle

\* encryptText is called: it validates its input and either rejects or
\* prints two lines and calls timelockEncrypt.
ExEncryptTextCall ==
    /\ exPc = "start"
    /\ LET msg == ExValidate(exText, exRound) IN
         IF msg # ""
         THEN /\ exThrown' = msg
              /\ exPc' = "rejected"
              /\ UNCHANGED <<exCalls, exOut>>
         ELSE /\ exCalls' = Append(exCalls, [round |-> exRound, bytes |-> exText])
              /\ exOut' = exOut \o <<"Encrypting", "Target round">>
              /\ exPc' = "await_encrypt"
              /\ UNCHANGED exThrown
    /\ UNCHANGED <<exText, exRound, exResult, vr, cliVars, mainVars>>

\* timelockEncrypt resolves: encryptText returns the artifact.
ExEncryptResolves ==
    /\ exPc = "await_encrypt"
    /\ \E a \in Artifacts : exResult' = a
    /\ exOut' = Append(exOut, "Encryption successful!")
    /\ exPc' = "resolved"
    /\ UNCHANGED <<exText, exRound, exThrown, exCalls, vr, cliVars, mainVars>>

\* timelockEncrypt rejects: encryptText reports the error and rethrows it.
ExEncryptRejects ==
    /\ exPc = "await_encrypt"
    /\ exThrown' = "EncryptionError"
    /\ exOut' = Append(exOut, "Encryption failed")
    /\ exPc' = "rejected"
    /\ UNCHANGED <<exText, exRound, exCalls, exResult, vr, cliVars, mainVars>>

\* validateRound is called on the round value.
ValidateRoundCall ==
    /\ exPc # "off"
    /\ ~vr.done
    /\ vr' = validateRound(exRound)
    /\ UNCHANGED <<exText, exRound, exPc, exThrown, exCalls, exResult, exOut, cliVars, mainVars>>

NextEx ==
    \/ ExEncryptTextCall
    \/ ExEncryptResolves
    \/ ExEncryptRejects
    \/ ValidateRoundCall

\* ------------------------------------------------------------------------
\* encrypt-arbitrary-text.js: main and its steps
\* ------------------------------------------------------------------------

\* The calls main awaits, in the order of its body.
MainSteps ==
    <<"getCurrentRoundInfo", "exampleMainnet", "exampleFutureRound", "exampleTestnet",
      "exampleCustom">>

\* The text, round, client, file name prefix and messages of an example.
Example(step) ==
    CASE step = "exampleMainnet" ->
           [text |-> <<"T", "h", "i", "s", " ", "i", "s", " ", "a", " ", "s", "e", "c",
                       "r", "e", "t", " ", "m", "e", "s", "s", "a", "g", "e", " ", "f",
                       "o", "r", " ", "m", "a", "i", "n", "n", "e", "t", "!">>,
            round |-> Fin(FALSE, <<1, 1, 6, 4, 5, 8, 1, 2>>, FALSE),
            network |-> "mainnet",
            prefix |-> <<"m", "a", "i", "n", "n", "e", "t", "-", "r", "o", "u", "n", "d",
                         "-">>,
            header |-> "=== Example 1: Mainnet Quicknet ===",
            failed |-> "Mainnet example failed",
            note |-> <<>>,
            excuse |-> <<>>]
      [] step = "exampleFutureRound" ->
           [text |-> <<"T", "h", "i", "s", " ", "m", "e", "s", "s", "a", "g", "e", " ",
                       "w", "i", "l", "l", " ", "b", "e", " ", "d", "e", "c", "r", "y",
                       "p", "t", "a", "b", "l", "e", " ", "m", "u", "c", "h", " ", "l",
                       "a", "t", "e", "r", "!">>,
            round |-> Fin(FALSE, <<1, 2, 0, 0, 0, 0, 0, 0>>, FALSE),
            network |-> "mainnet",
            prefix |-> <<"f", "u", "t", "u", "r", "e", "-", "r", "o", "u", "n", "d", "-">>,
            header |-> "=== Example 2: Future Round ===",
            failed |-> "Future round example failed",
            note |-> <<"Note: This is a very future round">>,
            excuse |-> <<>>]
      [] step = "exampleTestnet" ->
           [text |-> <<"T", "e", "s", "t", "n", "e", "t", " ", "m", "e", "s", "s", "a",
                       "g", "e", " ", "w", "i", "t", "h", " ", "s", "h", "o", "r", "t",
                       "e", "r", " ", "t", "i", "m", "e", "l", "o", "c", "k", "!">>,
            round |-> Fin(FALSE, <<2, 0, 0, 0, 0>>, FALSE),
            network |-> "testnet",
            prefix |-> <<"t", "e", "s", "t", "n", "e", "t", "-", "r", "o", "u", "n", "d",
                         "-">>,
            header |-> "=== Example 3: Testnet (Shorter Wait) ===",
            failed |-> "Testnet example failed",
            note |-> <<"This is on testnet">>,
            excuse |-> <<"This is normal if testnet endpoints are not available">>]
      [] step = "exampleCustom" ->
           [text |-> <<"H", "e", "l", "l", "o", ",", " ", "t", "h", "i", "s", " ", "i",
                       "s", " ", "m", "y", " ", "c", "u", "s", "t", "o", "m", " ", "s",
                       "e", "c", "r", "e", "t", " ", "m", "e", "s", "s", "a", "g", "e",
                       "!">>,
            round |-> Fin(FALSE, <<1, 1, 6, 5, 0, 0, 0, 0>>, FALSE),
            network |-> "mainnet",
            prefix |-> <<"c", "u", "s", "t", "o", "m", "-", "r", "o", "u", "n", "d", "-">>,
            header |-> "=== Example 4: Custom Text and Round ===",
            failed |-> "Custom example failed",
            note |-> <<>>,
            excuse |-> <<>>]

\* `${prefix}${round}.age`
ExampleFileName(e) == e.prefix \o NumberToString(e.round) \o Literal(".age")

\* The step after step i, had the steps let their errors through to the
\* catch block of main.
AfterStepPropagating(i, failed) == IF failed THEN Len(MainSteps) + 1 ELSE i + 1

\* The step main goes on to once step i has settled: every step catches
\* its own errors and resolves, so main goes on to the next statement.
AfterStep(i, failed) == i + 1

\* What main prints after its last step.
Summary(next) ==
    IF next > Len(MainSteps)
    THEN <<"=== Summary ===", "Created encrypted files for different rounds",
           "Each file can only be decrypted after its target round",
           "Files include filekey hash for verification", "To decrypt later, use:",
           "timelockDecrypt", "For more info">>
    ELSE <<>>

MainPcAfter(next) == IF next > Len(MainSteps) THEN "done" ELSE "call"

Event(step, ev, why) == [step |-> step, ev |-> ev, why |-> why]

\* node is started on encrypt-arbitrary-text.js: main prints its banner,
\* constructs the mainnet client and is about to call its first step.
InitMain ==
    /\ CliIdle
    /\ exText = <<>>
    /\ exRound = NaN
    /\ exPc = "off"
    /\ exThrown = ""
    /\ exCalls = <<>>
    /\ exResult = ""
    /\ exOut = <<>>
    /\ vr = NoOutcome
    /\ mPc = "call"
    /\ mStep = 1
    /\ mTrace = <<>>
    /\ mCalls = <<>>
    /\ mFiles = <<>>
    /\ mOut = <<"TLOCK-JS: Encrypt Arbitrary Text Examples", "====">>
    /\ mErr = <<>>

\* main calls its next step, which runs up to its first await: the
\* chain-info query of getCurrentRoundInfo, or timelockEncrypt inside the
\* encryptText an example calls.  An example whose input encryptText
\* rejects catches that error and has settled.
MainCallsStep ==
    /\ mPc = "call"
    /\ LET step == MainSteps[mStep] IN
         IF step = "getCurrentRoundInfo"
         THEN /\ mTrace' = Append(mTrace, Event(step, "start", ""))
              /\ mPc' = "await"
              /\ UNCHANGED <<mStep, mCalls, mOut, mErr>>
         ELSE LET e == Example(step)
                  msg == ExValidate(e.text, e.round)
                  next == AfterStep(mStep, TRUE)
              IN IF msg = ""
                 THEN /\ mTrace' = Append(mTrace, Event(step, "start", ""))
                      /\ mCalls' = Append(mCalls, [round |-> e.round, bytes |-> e.text,
                                                   client |-> e.network])
                      /\ mOut' = mOut \o <<e.header, "Encrypting", "Target round">>
                      /\ mPc' = "await"
                      /\ UNCHANGED <<mStep, mErr>>
                 ELSE /\ mTrace' = mTrace \o <<Event(step, "start", ""),
                                               Event(step, "caught", "validation")>>
                      /\ mOut' = mOut \o <<e.header>> \o e.excuse \o Summary(next)
                      /\ mErr' = Append(mErr, e.failed)
                      /\ mStep' = next
                      /\ mPc' = MainPcAfter(next)
                      /\ UNCHANGED mCalls
    /\ UNCHANGED <<mFiles, cliVars, libVars>>

\* The chain-info query of getCurrentRoundInfo settles: it resolves with the
\* chain information, resolves with an object without public_key (the
\* substring call throws inside the try block), or rejects.  Either error is
\* caught and reported by getCurrentRoundInfo, which resolves; main goes on.
MainInfoSettles ==
    /\ mPc = "await"
    /\ MainSteps[mStep] = "getCurrentRoundInfo"
    /\ \E outcome \in {"resolved", "malformed", "rejected"} :
         LET failed == outcome # "resolved"
             next == AfterStep(mStep, failed)
         IN /\ mTrace' = Append(mTrace, Event(MainSteps[mStep],
                                              IF failed THEN "caught" ELSE "ok",
                                              IF failed THEN "chain-info" ELSE ""))
            /\ mOut' = mOut
                       \o (IF outcome = "rejected" THEN <<>>
                           ELSE <<"Current Chain Information:", "Chain Hash", "Scheme">>)
                       \o (IF failed THEN <<>>
                           ELSE <<"Public Key", "To get current round">>)
                       \o Summary(next)
            /\ mErr' = IF failed THEN Append(mErr, "Failed to get chain info") ELSE mErr
            /\ mStep' = next
            /\ mPc' = MainPcAfter(next)
    /\ UNCHANGED <<mCalls, mFiles, cliVars, libVars>>

\* timelockEncrypt settles inside an example: it resolves and the file is
\* written, it resolves and fs.writeFileSync throws, or it rejects (reported
\* and rethrown by encryptText).  Either error is caught and reported by the
\* example, which resolves; main goes on.
MainExampleSettles ==
    /\ mPc = "await"
    /\ MainSteps[mStep] # "getCurrentRoundInfo"
    /\ \E outcome \in {"saved", "write failed", "encrypt rejected"}, a \in Artifacts :
         LET step == MainSteps[mStep]
             e == Example(step)
             failed == outcome # "saved"
             next == AfterStep(mStep, failed)
         IN /\ mTrace' = Append(mTrace, Event(step,
                                              IF failed THEN "caught" ELSE "ok",
                                              IF outcome = "write failed" THEN "file write"
                                              ELSE IF failed THEN "encryption" ELSE ""))
            /\ mFiles' = IF failed THEN mFiles
                         ELSE Append(mFiles, [name |-> ExampleFileName(e), data |-> a])
            /\ mOut' = mOut
                       \o (IF outcome = "encrypt rejected" THEN <<>>
                           ELSE <<"Encryption successful!">>)
                       \o (IF failed THEN e.excuse
                           ELSE <<"Saved to", "Can be decrypted after round">> \o e.note)
                       \o Summary(next)
            /\ mErr' = mErr
                       \o (IF outcome = "encrypt rejected" THEN <<"Encryption failed">> ELSE <<>>)
                       \o (IF failed THEN <<e.failed>> ELSE <<>>)
            /\ mStep' = next
            /\ mPc' = MainPcAfter(next)
    /\ UNCHANGED <<mCalls, cliVars, libVars>>

NextMain ==
    \/ MainCallsStep
    \/ MainInfoSettles
    \/ MainExampleSettles

\* ------------------------------------------------------------------------
\* Specification: a run of the command-line tool, calls of the library
\* functions, or a run of the examples' main
\* ------------------------------------------------------------------------

Init == InitCli \/ InitEx \/ InitMain

Next == NextCli \/ NextEx \/ NextMain

Spec == Init /\ [][Next]_vars

\* The runs of the command-line tool in which the program takes every
\* step it can take by itself: once started, main runs up to the first
\* await of encryptText.  When a call to the network settles, and whether
\* it does, is not up to the program: nothing in encryptText bounds the
\* time client.chain().info() or timelockEncrypt may take, so no fairness
\* is stated for their completions.
LiveTailTokens == {"--verbose", "-v", "--stdout", "-q", "--testnet", "--output", "f.age"}

InitLive ==
    /\ \E n \in 0..(MaxLiveArgs - 2) :
         \E t \in {"Hi", " "}, r \in {"100", "x"}, tl \in SeqsOfLen(LiveTailTokens, n) :
           argv = <<t, r>> \o tl
    /\ pc = "start"
    /\ options = NoOptions
    /\ exitCode = NoExit
    /\ stdout = <<>>
    /\ stderr = <<>>
    /\ clients = <<>>
    /\ infoCalls = <<>>
    /\ encryptCalls = <<>>
    /\ files = <<>>
    /\ ret = NoReturn
    /\ thrown = ""
    /\ ExIdle

FairSpec ==
    /\ InitLive
    /\ [][NextCli]_vars
    /\ WF_vars(ParseArgsStep)
    /\ WF_vars(MainStart)

\* ------------------------------------------------------------------------
\* Vocabulary of the properties
\* ------------------------------------------------------------------------

\* A string with a character that is not white space.
NonBlank(chars) == \E i \in 1..Len(chars) : chars[i] \notin WhiteSpace

\* A number value that is an integer >= 1.
IsPositiveInteger(v) == v.k = "fin" /\ ~v.neg /\ ~v.frac /\ v.mag # <<>>

\* An integer between 1 and Number.MAX_SAFE_INTEGER.
IsSafeRound(v) == IsPositiveInteger(v) /\ MagCmp(v.mag, MAX_SAFE_INTEGER) <= 0

\* A string of decimal digits only, and the natural it denotes.
AllDigits(chars) == chars # <<>> /\ \A i \in 1..Len(chars) : chars[i] \in DecDigits

Denoted(chars) == Norm([i \in 1..Len(chars) |-> DigitVal(chars[i])])

\* The three kinds of round token that are not an exact safe integer.
HasFractionalPart(chars) == \E i \in 1..Len(chars) : chars[i] = "."

HasTrailingNonDigit(chars) == chars # <<>> /\ chars[Len(chars)] \notin DecDigits

DenotesAboveMaxSafe(chars) ==
    AllDigits(chars) /\ MagCmp(Denoted(chars), MAX_SAFE_INTEGER) = 1

\* The command-line tool was started and parseArgs has run.
Parsed == pc \notin {"off", "start"}

HelpGiven == \E i \in 1..Len(argv) : argv[i] \in {"--help", "-h"}

\* A text and a round that pass validation, and no request for help.
ValidPositionals ==
    /\ ~HelpGiven
    /\ Len(argv) >= 2
    /\ NonBlank(Chars(argv[1]))
    /\ AllDigits(Chars(argv[2]))
    /\ Denoted(Chars(argv[2])) # <<>>
    /\ MagCmp(Denoted(Chars(argv[2])), MAX_SAFE_INTEGER) <= 0

InTail(tokens) == \E i \in 3..Len(argv) : argv[i] \in tokens

\* parseArgs ended the process with code 1 and returned no Options record.
EndedInError == pc = "exited" /\ exitCode = 1 /\ ~options.set

\* The tail is the three tokens --stdout, --output, f.age in some order.
ThreeConflictingTokens ==
    /\ Len(argv) = 5
    /\ {argv[3], argv[4], argv[5]} = {"--stdout", "--output", "f.age"}

\* --stdout comes right after --output.
StdoutFollowsOutput ==
    \E i \in 3..(Len(argv) - 1) : argv[i] = "--output" /\ argv[i + 1] = "--stdout"

\* Number of --output/-o tokens the tail ends with.
TrailingOutputs ==
    Cardinality({k \in 1..(Len(argv) - 2) :
                   \A j \in (Len(argv) - k + 1)..Len(argv) : argv[j] \in {"--output", "-o"}})

\* The last token is --output/-o and no path follows it: of the run of
\* --output/-o tokens that ends the list, each odd one takes the next as its path.
OutputLastWithoutPath == TrailingOutputs % 2 = 1

\* Artifact bytes were written to standard output.
HasArtifact(out) == \E i \in 1..Len(out) : out[i].k = "artifact"

\* Number of writes of artifact a to standard output.
TimesWritten(out, a) == Cardinality({i \in 1..Len(out) : out[i] = Raw(a)})

\* The characters of a path encryptText returned.
PathChars(s) == IF s = "auto-generated" THEN Literal(s) ELSE Chars(s)

\* The chain-info query of the run was made and rejected.
ChainInfoFailed == infoCalls # <<>> /\ infoCalls[1].settled = "rejected"


\* ------------------------------------------------------------------------
\* Properties
\* ------------------------------------------------------------------------

\* C1: timelockEncrypt is only ever called by the command-line tool with a
\* text that is non-blank after trimming and a round that is an integer >= 1.
C1_EncryptOnlyValidated ==
    \A i \in 1..Len(encryptCalls) :
        /\ NonBlank(encryptCalls[i].bytes)
        /\ IsPositiveInteger(encryptCalls[i].round)

\* C2: a round token with a fractional part, with trailing non-digit
\* characters or denoting a value above MAX_SAFE_INTEGER makes parseArgs end
\* the process with code 1, and no Options record is produced.
C2_InexactRoundRejected ==
    (/\ Parsed
     /\ ~HelpGiven
     /\ Len(argv) >= 2
     /\ \/ HasFractionalPart(Chars(argv[2]))
        \/ HasTrailingNonDigit(Chars(argv[2]))
        \/ DenotesAboveMaxSafe(Chars(argv[2])))
    => EndedInError

\* C3: validateRound(r) returns r unchanged exactly when r is an integer
\* with 1 <= r <= MAX_SAFE_INTEGER, and throws, returning nothing, otherwise.
C3_ValidateRoundIffSafe ==
    vr.done =>
        /\ (vr.threw = "") <=> IsSafeRound(exRound)
        /\ vr.threw = "" => vr.value = exRound
        /\ vr.threw # "" => vr.value = NaN

C3_Witness ==
    /\ vr.done
    /\ vr.threw = ""
    /\ exRound = Fin(FALSE, MAX_SAFE_INTEGER, FALSE)
    /\ vr.value = exRound

\* C4: text validation succeeds exactly when the text is non-empty after
\* trimming white space.  In the command-line tool a blank text ends the
\* process with code 1 and the empty-text message, and a non-blank one is
\* never rejected as empty and reaches the Options record unchanged; in
\* encryptText of the examples a blank text is rejected before any call of
\* timelockEncrypt, a non-blank one is never rejected as empty and is what
\* timelockEncrypt is called with.
C4_TextAcceptedIffNonBlank ==
    /\ (Parsed /\ ~HelpGiven /\ Len(argv) >= 2) =>
         /\ (EndedInError /\ stderr = <<"Error: Text cannot be empty">>)
              <=> ~NonBlank(Chars(argv[1]))
         /\ options.set => options.text = argv[1]
    /\ exPc \notin {"off", "start"} =>
         /\ ~NonBlank(exText) => (exPc = "rejected" /\ exCalls = <<>>)
         /\ exThrown = "Text cannot be empty" => ~NonBlank(exText)
         /\ (NonBlank(exText) /\ ~LessThanOne(exRound)) =>
              (Len(exCalls) = 1 /\ exCalls[1].bytes = exText)

C4_Witness ==
    /\ exPc = "rejected"
    /\ exThrown = "Text cannot be empty"
    /\ exText = <<" ", "\n">>
    /\ exCalls = <<>>

\* C5 as stated: valid positionals followed by --stdout, --output and f.age
\* in any order end in a usage error and no Options record.
C5_AnyOrderRejected ==
    (Parsed /\ ValidPositionals /\ ThreeConflictingTokens) => EndedInError

\* C5 as amended: valid positionals followed by --stdout, --output and
\* f.age end in a usage error and no Options record in the four orders in
\* which --stdout does not come right after --output; in the two orders
\* in which it does, --output takes --stdout as its path and parseArgs
\* returns an Options record with output "--stdout" and stdout unset.
C5_RejectedUnlessStdoutIsThePath ==
    (Parsed /\ ValidPositionals /\ ThreeConflictingTokens) =>
        IF StdoutFollowsOutput
        THEN options.set /\ options.output = Str("--stdout") /\ ~options.stdout
        ELSE EndedInError

C5_Witness ==
    /\ argv = <<"Hi", "100", "--stdout", "--output", "f.age">>
    /\ EndedInError
    /\ stderr = <<"Error: Cannot use both --stdout and --output">>

\* C6: an Options record returned by parseArgs has quiet set only if stdout
\* is set; valid positionals followed by flags among which --quiet/-q is
\* read and --stdout/-s is not (no --output/-o is there to take one of them
\* as its path) end in a usage error with exit code 1.
C6_QuietOnlyWithStdout ==
    /\ options.set => (options.quiet => options.stdout)
    /\ (/\ Parsed
        /\ ValidPositionals
        /\ InTail({"--quiet", "-q"})
        /\ ~InTail({"--stdout", "-s"})
        /\ ~InTail({"--output", "-o"}))
       => EndedInError

C6_Witness ==
    /\ argv = <<"Hi", "100", "-v", "--quiet">>
    /\ EndedInError
    /\ stderr = <<"Error: --quiet can only be used with --stdout">>

\* C7: with valid positionals, a later token that is flag-shaped but not a
\* recognised flag (--bogus, -x) ends the process with code 1 and nothing
\* is encrypted.  (No --output/-o is present, so every token after the
\* positionals is read as a flag.)
C7_UnknownFlagRejected ==
    (/\ Parsed
     /\ ValidPositionals
     /\ InTail({"--bogus", "-x"})
     /\ ~InTail({"--output", "-o"}))
    => (EndedInError /\ encryptCalls = <<>>)

\* C8: with --help or -h anywhere in the argument list the process prints
\* the help and exits with code 0, and nothing else happens: no error
\* message, no Options record, no client, no chain-info query, no call of
\* timelockEncrypt, no file.
C8_HelpShortCircuits ==
    (Parsed /\ HelpGiven) =>
        /\ pc = "exited"
        /\ exitCode = 0
        /\ stdout = <<Log("help")>>
        /\ stderr = <<>>
        /\ ~options.set
        /\ clients = <<>>
        /\ infoCalls = <<>>
        /\ encryptCalls = <<>>
        /\ files = <<>>

C8_Witness ==
    /\ pc = "exited"
    /\ exitCode = 0
    /\ Len(argv) = 4
    /\ argv[1] = " "
    /\ argv[2] = "x"
    /\ argv[3] = "--bogus"
    /\ argv[4] = "--help"

\* C9: without a help flag, fewer than two tokens (text, round), or
\* --output/-o as the last token with no path after it, make parseArgs end
\* the process with code 1 and return no Options record.
C9_MissingArgumentRejected ==
    (/\ Parsed
     /\ ~HelpGiven
     /\ Len(argv) < 2 \/ OutputLastWithoutPath)
    => EndedInError

C9_Witness ==
    /\ argv = <<"Hi", "100", "--stdout", "-o">>
    /\ EndedInError
    /\ stderr = <<"Error: --output requires a filename">>

\* C10: in a run with stdout and quiet set in which encryption succeeds,
\* standard output holds nothing until the artifact is delivered and, at
\* the end of the run, exactly the artifact returned by timelockEncrypt,
\* written once.
C10_QuietStdoutIsTheArtifact ==
    (options.set /\ options.stdout /\ options.quiet) =>
        /\ pc \in {"main", "await_encrypt"} => stdout = <<>>
        /\ pc = "done" =>
             /\ ret.set
             /\ ret.encrypted \in Artifacts
             /\ stdout = <<Raw(ret.encrypted)>>

C10_Witness ==
    /\ pc = "done"
    /\ options.stdout
    /\ options.quiet
    /\ stdout = <<Raw("age-2")>>
    /\ files = <<>>

\* C11: in a run with stdout set and quiet unset, nothing but artifact
\* bytes is ever written to standard output: all reporting text goes to
\* another channel.
C11_StdoutHoldsOnlyTheArtifact ==
    (options.set /\ options.stdout /\ ~options.quiet) =>
        \A i \in 1..Len(stdout) : stdout[i].k = "artifact"

\* C12: in a verbose, non-quiet run whose chain-info query rejected, the
\* run is not aborted by it: timelockEncrypt has been called, once, with the
\* parsed round, the bytes of the text and the client the query was made
\* on; the run ends in failure only if timelockEncrypt rejects or the file
\* cannot be written; and when it ends otherwise it ends with exit code 0
\* and the artifact delivered, to standard output or to the file.
C12_ChainInfoFailureIsNotFatal ==
    ChainInfoFailed =>
        /\ options.verbose /\ ~options.quiet
        /\ pc \in {"await_encrypt", "done", "exited"}
        /\ encryptCalls = <<[round |-> options.round, bytes |-> Chars(argv[1]),
                             client |-> infoCalls[1].client]>>
        /\ Len(clients) = 1
        /\ pc = "exited" => thrown \in {"EncryptionError", "IoError"}
        /\ pc = "done" =>
             /\ exitCode = 0
             /\ ret.set
             /\ IF options.stdout
                THEN TimesWritten(stdout, ret.encrypted) = 1
                ELSE Len(files) = 1 /\ files[1].data = ret.encrypted

C12_Witness ==
    /\ ChainInfoFailed
    /\ pc = "done"
    /\ exitCode = 0
    /\ Len(files) = 1
    /\ files[1].data = "age-1"
    /\ stdout[7] = Log("Could not fetch chain info")

\* C13: once timelockEncrypt has rejected, whatever quiet, verbose, stdout
\* and output are, the process has ended with exit code 1, no file has been
\* written and no artifact bytes are on standard output.
C13_EncryptFailureExitsOne ==
    thrown = "EncryptionError" =>
        /\ pc = "exited"
        /\ exitCode = 1
        /\ files = <<>>
        /\ ~HasArtifact(stdout)

C13_Witness ==
    /\ thrown = "EncryptionError"
    /\ exitCode = 1
    /\ options.quiet
    /\ options.stdout
    /\ options.verbose
    /\ stdout = <<>>

\* C14: a successful run given neither --output nor --stdout has written
\* exactly one file; its name is encrypted-<network>-round-<round>-<timestamp>.age
\* with network testnet exactly when --testnet/-t was given, round the
\* parsed round in decimal, and a non-empty timestamp without colon or
\* period; its contents are the artifact timelockEncrypt returned.
C14_AutoNamedFile ==
    (pc = "done" /\ ~InTail({"--output", "-o", "--stdout", "-s"})) =>
        /\ Len(files) = 1
        /\ ret.encrypted \in Artifacts
        /\ files[1].data = ret.encrypted
        /\ ValidPositionals => NumberToString(options.round) = Chars(argv[2])
        /\ LET name == files[1].name
               head == Literal("encrypted-")
                       \o Literal(IF InTail({"--testnet", "-t"}) THEN "testnet" ELSE "mainnet")
                       \o Literal("-round-") \o NumberToString(options.round) \o <<"-">>
               tail == Literal(".age")
           IN /\ Len(name) > Len(head) + Len(tail)
              /\ SubSeq(name, 1, Len(head)) = head
              /\ SubSeq(name, Len(name) - Len(tail) + 1, Len(name)) = tail
              /\ \A i \in (Len(head) + 1)..(Len(name) - Len(tail)) : name[i] \notin {":", "."}

C14_Witness ==
    /\ pc = "done"
    /\ argv = <<"Hi", "100", "--testnet">>
    /\ files = <<[name |-> <<"e", "n", "c", "r", "y", "p", "t", "e", "d", "-", "t", "e", "s",
                      "t", "n", "e", "t", "-", "r", "o", "u", "n", "d", "-", "1", "0", "0",
                      "-", "2", "0", "2", "5", "-", "1", "2", "-", "3", "1", "T", "2", "3",
                      "-", "5", "9", "-", "5", "9", ".", "a", "g", "e">>,
                  data |-> "age-2"]>>

\* C15: a run that parseArgs ended with a usage or validation error
\* (missing positionals, blank text, malformed round, unknown flag, --stdout
\* with --output, --quiet without --stdout, --output without a path) has
\* ended before any side effect: no client was constructed, no chain-info
\* query and no call of timelockEncrypt was made, no file was written and
\* no artifact bytes are on standard output.
C15_ErrorsBeforeSideEffects ==
    EndedInError =>
        /\ stderr # <<>>
        /\ clients = <<>>
        /\ infoCalls = <<>>
        /\ encryptCalls = <<>>
        /\ files = <<>>
        /\ ~HasArtifact(stdout)
        /\ ~ret.set

C15_Witness ==
    /\ EndedInError
    /\ argv = <<"Hi", "100", "--testnet", "-v", "--bogus">>
    /\ stderr = <<"Error: Unknown flag">>
    /\ clients = <<>>

\* C16: when timelockEncrypt rejects in a run with quiet and stdout set,
\* nothing is written to standard output and the failure is reported on
\* standard error, by the catch block of encryptText or that of main.
C16_QuietFailureIsReported ==
    (thrown = "EncryptionError" /\ options.quiet /\ options.stdout) =>
        /\ stdout = <<>>
        /\ \E i \in 1..Len(stderr) : stderr[i] \in {"Encryption failed", "Fatal error"}

\* C17: in a verbose, non-quiet run, once the chain-info query has been
\* made, timelockEncrypt is eventually called, whether the query resolves,
\* rejects or never settles.
C17_EncryptEventuallyInvoked ==
    (pc = "await_info") ~> (encryptCalls # <<>>)

\* C18: a run constructs at most one client, the one for the selected
\* network (testnet exactly when the testnet option is set); it calls
\* timelockEncrypt at most once and queries the chain info at most once,
\* both on that client; and the query comes before the call: while the
\* query is pending no call of timelockEncrypt has been made, and once the
\* call has been made no query is pending.
C18_OneClientOneCallEach ==
    /\ Len(clients) <= 1
    /\ Len(infoCalls) <= 1
    /\ Len(encryptCalls) <= 1
    /\ clients # <<>> =>
         /\ options.set
         /\ clients[1] = (IF options.testnet THEN "testnet" ELSE "mainnet")
    /\ \A i \in 1..Len(infoCalls) :
         /\ infoCalls[i].client = 1
         /\ Len(clients) = 1
         /\ infoCalls[i].settled = "pending" <=> pc = "await_info"
         /\ infoCalls[i].settled = "pending" => encryptCalls = <<>>
    /\ \A i \in 1..Len(encryptCalls) :
         /\ encryptCalls[i].client = 1
         /\ Len(clients) = 1
    /\ pc = "await_info" => Len(infoCalls) = 1

C18_Witness ==
    /\ pc = "done"
    /\ options.testnet
    /\ options.verbose
    /\ clients = <<"testnet">>
    /\ infoCalls = <<[client |-> 1, settled |-> "resolved"]>>
    /\ Len(encryptCalls) = 1
    /\ encryptCalls[1].client = 1

\* C19: encryptText of the examples calls timelockEncrypt only with a
\* roundNumber that is an integer >= 1 and a text that is not blank; for
\* any other roundNumber (a fraction, NaN, an infinity) or a blank text it
\* throws without having called timelockEncrypt.
C19_ExamplesEncryptOnlyValidated ==
    /\ \A i \in 1..Len(exCalls) :
         /\ IsPositiveInteger(exCalls[i].round)
         /\ NonBlank(exCalls[i].bytes)
    /\ (exPc \notin {"off", "start"} /\ ~(IsPositiveInteger(exRound) /\ NonBlank(exText))) =>
         (exPc = "rejected" /\ exCalls = <<>>)

\* C20: on success encryptText returns the artifact and an output
\* descriptor that is null when stdout is set and otherwise the path of
\* the file that was written, whether given with --output or generated.
C20_ReturnsArtifactAndPath ==
    pc = "done" =>
        /\ ret.set
        /\ ret.encrypted \in Artifacts
        /\ IF options.stdout
           THEN /\ ret.filename = Null
                /\ files = <<>>
                /\ TimesWritten(stdout, ret.encrypted) = 1
           ELSE /\ ~ret.filename.null
                /\ files = <<[name |-> PathChars(ret.filename.s), data |-> ret.encrypted]>>

\* C21: a successful run has delivered the artifact timelockEncrypt
\* returned to exactly one sink, once and unchanged: with stdout set, one
\* write of it to standard output and no file; with stdout unset, one file
\* holding it and no artifact bytes on standard output.
C21_OneSinkOnce ==
    pc = "done" =>
        /\ ret.set
        /\ ret.encrypted \in Artifacts
        /\ IF options.stdout
           THEN /\ files = <<>>
                /\ Cardinality({i \in 1..Len(stdout) : stdout[i].k = "artifact"}) = 1
                /\ TimesWritten(stdout, ret.encrypted) = 1
           ELSE /\ ~HasArtifact(stdout)
                /\ Len(files) = 1
                /\ files[1].data = ret.encrypted

C21_Witness ==
    /\ pc = "done"
    /\ ~options.stdout
    /\ ~options.quiet
    /\ options.output = Str("f.age")
    /\ files = <<[name |-> <<"f", ".", "a", "g", "e">>, data |-> "age-1"]>>
    /\ ~HasArtifact(stdout)

\* C22: in the examples' main the steps getCurrentRoundInfo,
\* exampleMainnet, exampleFutureRound, exampleTestnet and exampleCustom are
\* called in that order, each only once the one before has settled; a step
\* in which the chain-info query, the encryption or the file write failed
\* has caught and reported that failure, and main has gone on to the next
\* step; main ends only after all five steps were called and settled, and
\* it ends by resolving.
C22_StepsInOrderFailuresContained ==
    mPc # "off" =>
        /\ mPc \in {"call", "await", "done"}
        /\ Len(mTrace) <= 2 * Len(MainSteps)
        /\ \A k \in 1..Len(mTrace) :
             /\ mTrace[k].step = MainSteps[(k + 1) \div 2]
             /\ k % 2 = 1 => mTrace[k].ev = "start"
             /\ k % 2 = 0 =>
                  /\ mTrace[k].ev \in {"ok", "caught"}
                  /\ mTrace[k].ev = "caught" <=>
                       mTrace[k].why \in {"chain-info", "encryption", "file write"}
        /\ mPc = "call" => (Len(mTrace) = 2 * (mStep - 1) /\ mStep \in 1..Len(MainSteps))
        /\ mPc = "await" => (Len(mTrace) = 2 * mStep - 1 /\ mStep \in 1..Len(MainSteps))
        /\ mPc = "done" => Len(mTrace) = 2 * Len(MainSteps)
        /\ Cardinality({k \in 1..Len(mTrace) : mTrace[k].ev = "caught"})
             = Cardinality({j \in 1..Len(mErr) : mErr[j] # "Encryption failed"})
        /\ Len(mFiles) = Cardinality({k \in 1..Len(mTrace) :
                                        mTrace[k].ev = "ok" /\ k > 2})
        /\ Len(mCalls) = Cardinality({k \in 1..Len(mTrace) :
                                        mTrace[k].ev = "start" /\ k > 2})

C22_Witness ==
    /\ mPc = "done"
    /\ Len(mTrace) = 10
    /\ mTrace[2] = Event("getCurrentRoundInfo", "caught", "chain-info")
    /\ mTrace[4] = Event("exampleMainnet", "caught", "encryption")
    /\ mTrace[6] = Event("exampleFutureRound", "caught", "file write")
    /\ mTrace[8] = Event("exampleTestnet", "caught", "encryption")
    /\ mTrace[9] = Event("exampleCustom", "start", "")
    /\ mTrace[10] = Event("exampleCustom", "ok", "")
    /\ Len(mFiles) = 1
    /\ Len(mCalls) = 4

====
